---- MODULE Spec2Model ----
(***************************************************************************)
(* tsclean: a scaffolding generator for TypeScript/Express projects.       *)
(*                                                                         *)
(* The repository ships the same generator three times: a Node CLI         *)
(* (src/src/commands/createProject.ts, compiled to src/dist/index.js), a   *)
(* bash script (embedded in src/src/cli.ts) and a PowerShell script        *)
(* (embedded in src/todo.md).  Texts are modelled as sequences of          *)
(* one-character strings so that split, startsWith, regular expressions    *)
(* and slicing are computed the way the code computes them.                *)
(***************************************************************************)
EXTENDS Integers, Sequences, FiniteSets, TLC

VARIABLES
  gen,        \* which shipped generator the runs of this behaviour use
  project,    \* the project name given to create
  fs,         \* the file system under the project root
  last,       \* the last finished run: command, the arguments after the project name and
              \* path (create), the values given with --feature (or the
              \* feature name), the features it worked on, exit status, file system
              \* before, the steps it issued
  roster,     \* the feature names the user has successfully asked for so far
  runs,       \* number of runs so far
  environ,    \* the environment of the runs: which path, if any, cannot be created or written
  input,      \* a field spec string handed to parseFields
  parsed,     \* the result of parseFields(input)
  fieldList,  \* a list of field descriptors handed to the rule compiler
  zodOut,     \* the result of getZodSchema / get_zod_schema on fieldList
  sampleOut,  \* the result of getSampleJson on fieldList
  typeOut     \* the result of toTsType and toMongooseType on the types of fieldList

vars == <<gen, project, fs, last, roster, runs, environ, input, parsed, fieldList, zodOut, sampleOut, typeOut>>

runVars == <<gen, project, fs, last, roster, runs, environ>>
parseVars == <<input, parsed>>
ruleVars == <<fieldList, zodOut, sampleOut, typeOut>>

(***************************************************************************)
(* Bounds                                                                  *)
(***************************************************************************)
MaxSpecLen == 7
MaxFields == 2
MaxRuns == 3
MaxRoster == 2

(***************************************************************************)
(* Text helpers                                                            *)
(***************************************************************************)
\* the value of a destructured array element that does not exist
Undefined == <<"undefined">>

\* String.prototype.split(sep) for a one-character separator
split(s, sep) ==
  LET RECURSIVE go(_, _, _)
      go(i, cur, acc) ==
        IF i > Len(s) THEN Append(acc, cur)
        ELSE IF s[i] = sep THEN go(i + 1, <<>>, Append(acc, cur))
        ELSE go(i + 1, Append(cur, s[i]), acc)
  IN go(1, <<>>, <<>>)

\* Array.prototype.join(sep)
join(parts, sep) ==
  LET RECURSIVE go(_)
      go(i) == IF i > Len(parts) THEN <<>>
               ELSE IF i = 1 THEN parts[1] \o go(2)
               ELSE sep \o parts[i] \o go(i + 1)
  IN go(1)

\* all lists over S of length at most n
RECURSIVE ListsUpTo(_, _)
ListsUpTo(S, n) ==
  IF n = 0 THEN {<<>>}
  ELSE LET shorter == ListsUpTo(S, n - 1)
       IN shorter \cup {Append(l, x) : l \in shorter, x \in S}

\* String.prototype.startsWith
startsWith(s, p) == Len(s) >= Len(p) /\ SubSeq(s, 1, Len(p)) = p

(***************************************************************************)
(* Field grammar parser                                                    *)
(***************************************************************************)
\* a variant that only looks for name:type somewhere in the entry
FieldSchemaUnanchored(val) ==
  \E i \in 2..(Len(val) - 1) : val[i] = ":" /\ val[i - 1] # ":" /\ val[i + 1] # ":"

\* FieldSchema: /^[^:]+:[^:]+(:[^:]+)?$/ run as an automaton over the entry.
\* q: 0 before name, 1 in name, 2 after first colon, 3 in type,
\*    4 after second colon, 5 in rule
FieldSchemaTest(val) ==
  LET RECURSIVE run(_, _)
      run(i, q) ==
        IF i > Len(val) THEN q \in {3, 5}
        ELSE IF val[i] = ":"
             THEN (IF q = 1 THEN run(i + 1, 2)
                   ELSE IF q = 3 THEN run(i + 1, 4)
                   ELSE FALSE)
             ELSE run(i + 1, IF q \in {0, 1} THEN 1 ELSE IF q \in {2, 3} THEN 3 ELSE 5)
  IN run(1, 0)

\* the outcome of a parse that threw
Thrown == [ok |-> FALSE, fields |-> <<>>]

\* const [name, type, rule] = pair.split(':')
Destructure(pair) ==
  LET p == split(pair, ":")
  IN [name |-> p[1],
      type |-> IF Len(p) >= 2 THEN p[2] ELSE Undefined,
      rule |-> IF Len(p) >= 3 THEN p[3] ELSE Undefined]

\* a variant that forgets the rule part
parseFieldsNoRule(fields) ==
  IF fields = <<>> THEN [ok |-> TRUE, fields |-> <<>>]
  ELSE LET pairs == split(fields, ",")
       IN IF \A i \in 1..Len(pairs) : FieldSchemaTest(pairs[i])
          THEN [ok |-> TRUE,
                fields |-> [i \in 1..Len(pairs) |->
                              [Destructure(pairs[i]) EXCEPT !.rule = Undefined]]]
          ELSE Thrown

parseFields(fields) ==
  IF fields = <<>> THEN [ok |-> TRUE, fields |-> <<>>]
  ELSE LET pairs == split(fields, ",")
       IN IF \A i \in 1..Len(pairs) : FieldSchemaTest(pairs[i])
          THEN [ok |-> TRUE, fields |-> [i \in 1..Len(pairs) |-> Destructure(pairs[i])]]
          ELSE Thrown

(***************************************************************************)
(* Rule-to-schema compiler and sample values                               *)
(***************************************************************************)
S_string == <<"s", "t", "r", "i", "n", "g">>
S_number == <<"n", "u", "m", "b", "e", "r">>
S_boolean == <<"b", "o", "o", "l", "e", "a", "n">>
S_email == <<"e", "m", "a", "i", "l">>
S_minlengthEq == <<"m", "i", "n", "l", "e", "n", "g", "t", "h", "=">>
S_maxlengthEq == <<"m", "a", "x", "l", "e", "n", "g", "t", "h", "=">>
S_minEq == <<"m", "i", "n", "=">>
S_maxEq == <<"m", "a", "x", "=">>
S_enumEq == <<"e", "n", "u", "m", "=">>
S_zString == <<"z", ".", "s", "t", "r", "i", "n", "g", "(", ")">>
S_zNumber == <<"z", ".", "n", "u", "m", "b", "e", "r", "(", ")">>
S_zBoolean == <<"z", ".", "b", "o", "o", "l", "e", "a", "n", "(", ")">>
S_zAny == <<"z", ".", "a", "n", "y", "(", ")">>
S_dotEmail == <<".", "e", "m", "a", "i", "l", "(", ")">>
S_dotMin == <<".", "m", "i", "n", "(">>
S_dotMax == <<".", "m", "a", "x", "(">>
S_zEnumOpen == <<"z", ".", "e", "n", "u", "m", "(", "[">>
S_zEnumClose == <<"]", ")">>
S_zObjectOpen == <<"z", ".", "o", "b", "j", "e", "c", "t", "(", "{">>
S_zObjectClose == <<"}", ")">>
S_testEmail == <<"\"", "t", "e", "s", "t", "@", "e", "x", "a", "m", "p", "l", "e", ".", "c", "o", "m", "\"">>
S_sampleUnderscore == <<"s", "a", "m", "p", "l", "e", "_">>
S_123 == <<"1", "2", "3">>
S_true == <<"t", "r", "u", "e">>
S_null == <<"n", "u", "l", "l">>
S_indent == <<" ", " ", " ", " ">>
NL == "\n"
DQ == "\""

\* `"${e}"`
Quote(s) == <<DQ>> \o s \o <<DQ>>

\* a rule is truthy when it is neither undefined nor the empty string
Truthy(s) == s # Undefined /\ s # <<>>

\* toTsType and toMongooseType: a switch on the type token with a default
S_any == <<"a", "n", "y">>
S_String == <<"S", "t", "r", "i", "n", "g">>
S_Number == <<"N", "u", "m", "b", "e", "r">>
S_Boolean == <<"B", "o", "o", "l", "e", "a", "n">>
S_Mixed == <<"M", "i", "x", "e", "d">>

\* a switch that compares the token without regard to case
toTsTypeFolded(type) ==
  LET lower == [k \in 1..Len(type) |->
                  IF type[k] \in {"S", "N", "B"}
                  THEN (CASE type[k] = "S" -> "s" [] type[k] = "N" -> "n" [] type[k] = "B" -> "b")
                  ELSE type[k]]
  IN IF lower = S_string THEN S_string
     ELSE IF lower = S_number THEN S_number
     ELSE IF lower = S_boolean THEN S_boolean
     ELSE S_any

toTsType(type) ==
  IF type = S_string THEN S_string
  ELSE IF type = S_number THEN S_number
  ELSE IF type = S_boolean THEN S_boolean
  ELSE S_any

toMongooseType(type) ==
  IF type = S_string THEN S_String
  ELSE IF type = S_number THEN S_Number
  ELSE IF type = S_boolean THEN S_Boolean
  ELSE S_Mixed

\* the switch on the type token
BareValidator(type) ==
  IF type = S_string THEN S_zString
  ELSE IF type = S_number THEN S_zNumber
  ELSE IF type = S_boolean THEN S_zBoolean
  ELSE S_zAny

\* rule.split('=')[1], undefined when the rule has no '='
AfterEq(rule) ==
  LET p == split(rule, "=") IN IF Len(p) >= 2 THEN p[2] ELSE Undefined

\* template interpolation `${x}`: undefined prints as the word undefined
Interp(x) == IF x = Undefined THEN <<"u", "n", "d", "e", "f", "i", "n", "e", "d">> ELSE x

\* a variant whose numeric patterns lack the '='
zodTypeLoose(type, rule) ==
  LET base == BareValidator(type)
  IN IF ~Truthy(rule) THEN base
     ELSE IF rule = S_email THEN base \o S_dotEmail
     ELSE IF startsWith(rule, <<"m", "i", "n">>) THEN base \o S_dotMin \o Interp(AfterEq(rule)) \o <<")">>
     ELSE IF startsWith(rule, <<"m", "a", "x">>) THEN base \o S_dotMax \o Interp(AfterEq(rule)) \o <<")">>
     ELSE base

\* the body of the loop of getZodSchema: the validator expression of one field
zodType(type, rule) ==
  LET base == BareValidator(type)
  IN IF ~Truthy(rule) THEN base
     ELSE IF rule = S_email THEN base \o S_dotEmail
     ELSE IF startsWith(rule, S_minlengthEq) THEN base \o S_dotMin \o Interp(AfterEq(rule)) \o <<")">>
     ELSE IF startsWith(rule, S_maxlengthEq) THEN base \o S_dotMax \o Interp(AfterEq(rule)) \o <<")">>
     ELSE IF startsWith(rule, S_minEq) THEN base \o S_dotMin \o Interp(AfterEq(rule)) \o <<")">>
     ELSE IF startsWith(rule, S_maxEq) THEN base \o S_dotMax \o Interp(AfterEq(rule)) \o <<")">>
     ELSE IF startsWith(rule, S_enumEq)
          THEN LET lits == split(AfterEq(rule), "|")
               IN S_zEnumOpen \o join([k \in 1..Len(lits) |-> Quote(lits[k])], <<",", " ">>) \o S_zEnumClose
     ELSE base

getZodSchema(fields) ==
  LET RECURSIVE body(_)
      body(i) == IF i > Len(fields) THEN <<>>
                 ELSE S_indent \o Interp(fields[i].name) \o <<":", " ">>
                        \o zodType(fields[i].type, fields[i].rule) \o <<",", NL>> \o body(i + 1)
  IN S_zObjectOpen \o <<NL>> \o body(1) \o S_zObjectClose

\* ${rule#prefix}
StripPrefix(s, p) == SubSeq(s, Len(p) + 1, Len(s))

\* IFS='|' read -ra: split on '|', a single trailing empty field is dropped
ReadArray(s, sep) ==
  LET p == split(s, sep)
  IN IF p[Len(p)] = <<>> THEN SubSeq(p, 1, Len(p) - 1) ELSE p

\* printf "\"%s\"," "${enum_values[@]}" | sed 's/,$//'
PrintfQuoted(vals) ==
  IF vals = <<>> THEN Quote(<<>>)
  ELSE join([k \in 1..Len(vals) |-> Quote(vals[k])], <<",">>)

\* the body of the loop of get_zod_schema (bash)
zod_type(type, rule) ==
  LET base == BareValidator(type)
  IN IF rule = <<>> THEN base
     ELSE IF rule = S_email THEN base \o S_dotEmail
     ELSE IF startsWith(rule, S_minlengthEq) THEN base \o S_dotMin \o StripPrefix(rule, S_minlengthEq) \o <<")">>
     ELSE IF startsWith(rule, S_maxlengthEq) THEN base \o S_dotMax \o StripPrefix(rule, S_maxlengthEq) \o <<")">>
     ELSE IF startsWith(rule, S_minEq) THEN base \o S_dotMin \o StripPrefix(rule, S_minEq) \o <<")">>
     ELSE IF startsWith(rule, S_maxEq) THEN base \o S_dotMax \o StripPrefix(rule, S_maxEq) \o <<")">>
     ELSE IF startsWith(rule, S_enumEq)
          THEN S_zEnumOpen \o PrintfQuoted(ReadArray(StripPrefix(rule, S_enumEq), "|")) \o S_zEnumClose
     ELSE base

get_zod_schema(names, types, rules) ==
  LET RECURSIVE body(_)
      body(i) == IF i > Len(names) THEN <<>>
                 ELSE <<NL>> \o S_indent \o names[i] \o <<":", " ">>
                        \o zod_type(types[i], rules[i]) \o <<",">> \o body(i + 1)
  IN S_zObjectOpen \o body(1) \o <<NL>> \o S_zObjectClose

\* the body of the loop of getSampleJson: the sample value of one field
sampleValue(name, type, rule) ==
  IF type = S_string
  THEN (IF rule = S_email THEN S_testEmail
        ELSE IF rule # Undefined /\ startsWith(rule, S_enumEq)
             THEN Quote(split(AfterEq(rule), "|")[1])
             ELSE Quote(S_sampleUnderscore \o Interp(name)))
  ELSE IF type = S_number THEN S_123
  ELSE IF type = S_boolean THEN S_true
  ELSE S_null

\* String.prototype.slice(0, -2)
sliceOffTwo(s) == SubSeq(s, 1, Len(s) - 2)

getSampleJson(fields) ==
  LET RECURSIVE body(_)
      body(i) == IF i > Len(fields) THEN <<>>
                 ELSE Quote(Interp(fields[i].name)) \o <<":", " ">>
                        \o sampleValue(fields[i].name, fields[i].type, fields[i].rule)
                        \o <<",", " ">> \o body(i + 1)
  IN sliceOffTwo(<<"{">> \o body(1)) \o <<"}">>

\* cut -d<sep> -f<n>: the whole line when it has no separator
cut(s, sep, n) ==
  LET p == split(s, sep)
  IN IF Len(p) = 1 THEN s ELSE IF n <= Len(p) THEN p[n] ELSE <<>>

\* the case on the type in the field loop of the bash generator
sample_value(name, type, rule) ==
  IF type = S_string
  THEN (IF rule = S_email THEN S_testEmail
        ELSE IF startsWith(rule, S_enumEq) THEN Quote(cut(cut(rule, "=", 2), "|", 1))
        ELSE Quote(S_sampleUnderscore \o name))
  ELSE IF type = S_number THEN S_123
  ELSE IF type = S_boolean THEN S_true
  ELSE S_null

\* ${sample_json%, } : drop one trailing ", " when present
StripCommaSpace(s) ==
  IF Len(s) >= 2 /\ s[Len(s) - 1] = "," /\ s[Len(s)] = " " THEN SubSeq(s, 1, Len(s) - 2) ELSE s

sample_json(names, types, rules) ==
  LET RECURSIVE body(_)
      body(i) == IF i > Len(names) THEN <<>>
                 ELSE Quote(names[i]) \o <<":", " ">> \o sample_value(names[i], types[i], rules[i])
                        \o <<",", " ">> \o body(i + 1)
  IN <<"{">> \o StripCommaSpace(body(1)) \o <<"}">>

(***************************************************************************)
(* The file system under the project root                                  *)
(***************************************************************************)
\* A path is [nested, feature, rel]: rel is the path below the project root
\* (with <f> standing for the feature name), feature is the feature the path
\* belongs to (<<>> for project-wide paths) and nested tells that the path
\* lies below <root>/<projectRoot> instead of <root>.
CorePath(rel) == [nested |-> FALSE, feature |-> <<>>, rel |-> rel]
FeaturePath(nested, feature, rel) == [nested |-> nested, feature |-> feature, rel |-> rel]

EmptyFs == [root |-> FALSE, dirs |-> {}, files |-> [p \in {} |-> <<>>]]
NoRun == [cmd |-> "none", exit |-> 0, pre |-> EmptyFs, line |-> <<>>, given |-> <<>>, features |-> <<>>, ops |-> <<>>, failedAt |-> 0]
NoRoster == [valid |-> FALSE, names |-> <<>>]

\* fs.mkdir(..., { recursive: true }) / mkdir -p
mkdirAll(f, newDirs) == [f EXCEPT !.root = TRUE, !.dirs = @ \cup newDirs]

\* fs.writeFile: create or overwrite
writeFile(f, path, content) ==
  [f EXCEPT !.files = [p \in (DOMAIN @) \cup {path} |-> IF p = path THEN content ELSE @[p]]]

\* several writes to distinct paths
writeFiles(f, contents) ==
  [f EXCEPT !.files = [p \in (DOMAIN @) \cup (DOMAIN contents) |->
                          IF p \in DOMAIN contents THEN contents[p] ELSE @[p]]]

fileExists(f, path) == path \in DOMAIN f.files

\* the project root itself, as the target of a mkdir
RootPath == CorePath(".")

\* the directory a file is written into
ParentRel(rel) ==
  CASE rel \in {"package.json", "tsconfig.json", "jest.config.ts", ".env", ".gitignore", "README.md"} -> "."
    [] rel = "Core/result/result.ts" -> "Core/result"
    [] rel = "Core/error/custom-error.ts" -> "Core/error"
    [] rel = "Core/config/database.ts" -> "Core/config"
    [] rel = "Server/index.ts" -> "Server"
    [] rel = "Features/<f>/container.ts" -> "Features/<f>"
    [] rel = "Features/<f>/domain/entity/<f>.entity.ts" -> "Features/<f>/domain/entity"
    [] rel = "Features/<f>/domain/repositories/<f>.repository.interface.ts" -> "Features/<f>/domain/repositories"
    [] rel = "Features/<f>/domain/usecases/create-<f>.usecase.ts" -> "Features/<f>/domain/usecases"
    [] rel = "Features/<f>/data/models/<f>.model.ts" -> "Features/<f>/data/models"
    [] rel = "Features/<f>/data/datasources/<f>.datasource.ts" -> "Features/<f>/data/datasources"
    [] rel = "Features/<f>/data/repositories/<f>.repository.ts" -> "Features/<f>/data/repositories"
    [] rel = "Features/<f>/delivery/middlewares/validate-<f>.middleware.ts" -> "Features/<f>/delivery/middlewares"
    [] rel = "Features/<f>/delivery/controllers/<f>.controller.ts" -> "Features/<f>/delivery/controllers"
    [] rel \in {"__tests__/Features/<f>/<f>.usecase.test.ts", "__tests__/Features/<f>/<f>.controller.test.ts"} ->
         "__tests__/Features/<f>"

\* does the directory a file is written into exist?  A recursive mkdir of
\* Features/<f>/x/y has created Features/<f> as well.
parentExists(f, path) ==
  LET parent == ParentRel(path.rel)
  IN IF parent = "." THEN f.root
     ELSE \/ [path EXCEPT !.rel = parent] \in f.dirs
          \/ /\ parent = "Features/<f>"
             /\ \E d \in f.dirs : /\ d.nested = path.nested /\ d.feature = path.feature
                                   /\ d.rel # "__tests__/Features/<f>"

\* One step of a run: file-system operations issued together (the array handed
\* to Promise.all, or a run of consecutive commands of a script)
NoContents == [p \in {} |-> <<>>]
mkdirStep(paths) == [op |-> "mkdir", paths |-> paths, contents |-> NoContents]
writeStep(contents) == [op |-> "write", paths |-> DOMAIN contents, contents |-> contents]

\* the operations of a step that fail: the target cannot be written, or the
\* directory of a file does not exist (ENOENT)
failing(f, step, broken) ==
  (step.paths \cap broken)
    \cup (IF step.op = "write" THEN {p \in step.paths : ~parentExists(f, p)} ELSE {})

\* a step whose feature writes clear the files of the other features first
applyStepClearing(f, step, skip) ==
  LET done == step.paths \ skip
      keep == {p \in DOMAIN f.files :
                 p.feature = <<>> \/ \E q \in done : q.feature \in {p.feature, <<>>}}
      cleared == [f EXCEPT !.files = [p \in keep |-> f.files[p]]]
  IN IF step.op = "mkdir"
     THEN IF done = {} THEN f ELSE mkdirAll(f, done \ {RootPath})
     ELSE writeFiles(cleared, [p \in done |-> step.contents[p]])

\* the effect of the operations of a step other than those in skip
applyStep(f, step, skip) ==
  LET done == step.paths \ skip
  IN IF step.op = "mkdir"
     THEN IF done = {} THEN f ELSE mkdirAll(f, done \ {RootPath})
     ELSE writeFiles(f, [p \in done |-> step.contents[p]])

\* what of a run is kept for the record: the steps issued, without contents
issuedOps(steps, n) == [i \in 1..n |-> [op |-> steps[i].op, paths |-> steps[i].paths]]

\* await of each step inside try/catch: the first rejected operation ends the
\* run with process.exit(1); the other operations of that step were issued
\* with it and either all finish before the exit or none does
RECURSIVE awaitSteps(_, _, _, _)
awaitSteps(f, steps, i, env) ==
  IF i > Len(steps) THEN [fs |-> f, issued |-> Len(steps), failedAt |-> 0]
  ELSE LET body(bad) ==
             IF bad = {} THEN awaitSteps(applyStep(f, steps[i], {}), steps, i + 1, env)
             ELSE [fs |-> IF env.others THEN applyStep(f, steps[i], bad) ELSE f,
                   issued |-> i, failedAt |-> i]
       IN body(failing(f, steps[i], env.broken))

\* a script without errexit: a failed command changes nothing and the next
\* command runs
RECURSIVE runCommands(_, _, _, _, _)
runCommands(f, steps, i, env, failedAt) ==
  IF i > Len(steps) THEN [fs |-> f, issued |-> Len(steps), failedAt |-> failedAt]
  ELSE LET body(bad) ==
             runCommands(applyStep(f, steps[i], bad), steps, i + 1, env,
                         IF bad # {} /\ failedAt = 0 THEN i ELSE failedAt)
       IN body(failing(f, steps[i], env.broken))

(***************************************************************************)
(* Names: capitalize, toLowerCase, \w                                      *)
(***************************************************************************)
LowerLetters == <<"a", "b", "c", "d", "e", "f", "g", "h", "i", "j", "k", "l", "m",
                  "n", "o", "p", "q", "r", "s", "t", "u", "v", "w", "x", "y", "z">>
UpperLetters == <<"A", "B", "C", "D", "E", "F", "G", "H", "I", "J", "K", "L", "M",
                  "N", "O", "P", "Q", "R", "S", "T", "U", "V", "W", "X", "Y", "Z">>
Digits == {"0", "1", "2", "3", "4", "5", "6", "7", "8", "9"}

toUpperChar(c) == IF \E i \in 1..26 : LowerLetters[i] = c
                  THEN UpperLetters[CHOOSE i \in 1..26 : LowerLetters[i] = c] ELSE c
toLowerChar(c) == IF \E i \in 1..26 : UpperLetters[i] = c
                  THEN LowerLetters[CHOOSE i \in 1..26 : UpperLetters[i] = c] ELSE c

\* str ? str.charAt(0).toUpperCase() + str.slice(1) : str
capitalize(str) == IF str = <<>> THEN str ELSE <<toUpperChar(str[1])>> \o Tail(str)

toLowerCase(str) == [i \in 1..Len(str) |-> toLowerChar(str[i])]

\* the character class \w
isWordChar(c) ==
  \/ \E i \in 1..26 : LowerLetters[i] = c \/ UpperLetters[i] = c
  \/ c \in Digits
  \/ c = "_"

(***************************************************************************)
(* Templates of the Node generator                                         *)
(***************************************************************************)
S_Controller == <<"C", "o", "n", "t", "r", "o", "l", "l", "e", "r">>
S_container == <<"c", "o", "n", "t", "a", "i", "n", "e", "r">>
S_connectToDatabase == <<"c", "o", "n", "n", "e", "c", "t", "T", "o", "D", "a", "t", "a", "b", "a", "s", "e">>
S_CreateA == <<"C", "r", "e", "a", "t", "e", " ", "a", " ">>
S_Project == <<"P", "r", "o", "j", "e", "c", "t">>
DefaultFields ==
  <<"n", "a", "m", "e", ":", "s", "t", "r", "i", "n", "g", ":", "m", "i", "n", "l", "e", "n", "g", "t", "h", "=", "3",
    ",", "e", "m", "a", "i", "l", ":", "s", "t", "r", "i", "n", "g", ":", "e", "m", "a", "i", "l">>

\* (the field spec handed on as it is, without the || default)
orDefaultSkipped(fieldDefs) == fieldDefs

\* fieldDefs || 'name:string:minlength=3,email:string:email'
orDefault(fieldDefs) == IF fieldDefs = <<>> THEN DefaultFields ELSE fieldDefs

\* templates.serverIndexTs: the identifiers imported with `import { X } from`
\* in file order, and the features mounted under /api/<name> in file order
serverIndexTs(features) ==
  [tmpl |-> "serverIndexTs",
   body |-> [imports |-> <<S_container, S_connectToDatabase>>
                           \o [i \in 1..Len(features) |-> capitalize(features[i].name) \o S_Controller],
             mounts |-> [i \in 1..Len(features) |-> features[i].name]]]

\* templates.readmeMd: the heading, the entries of the testing section
\* (`- Create a <name>:` and the curl line with /api/<name> and the sample
\* JSON) and the feature list of the structure section
readmeMd(projectName, features, sampleJsons) ==
  [tmpl |-> "readmeMd",
   body |-> [heading |-> projectName,
             testing |-> [i \in 1..Len(features) |->
                            [name |-> features[i].name, sample |-> Interp(sampleJsons[i])]],
             modules |-> [i \in 1..Len(features) |-> features[i].name]]]

\* the project-wide files other than the bootstrap file and the README
CoreTemplates == {"package.json", "tsconfig.json", "jest.config.ts", ".env", ".gitignore",
                  "Core/result/result.ts", "Core/error/custom-error.ts", "Core/config/database.ts"}
coreFile(rel, projectName) ==
  [tmpl |-> rel, body |-> IF rel \in {"package.json", ".env"} THEN projectName ELSE <<>>]

\* the ten directories of one feature
FeatureDirRels == {"Features/<f>/domain/entity", "Features/<f>/domain/usecases",
                   "Features/<f>/domain/repositories", "Features/<f>/data/repositories",
                   "Features/<f>/data/datasources", "Features/<f>/data/models",
                   "Features/<f>/delivery/routes", "Features/<f>/delivery/controllers",
                   "Features/<f>/delivery/middlewares", "__tests__/Features/<f>"}
featureDirs(nested, feature) == {FeaturePath(nested, feature, rel) : rel \in FeatureDirRels}

CoreDirRels == {"Core/config", "Core/error", "Core/result", "Server", "__tests__"}

\* the eleven files of one feature and what each template is given
FeatureFileRels == {"Features/<f>/container.ts",
                    "Features/<f>/domain/entity/<f>.entity.ts",
                    "Features/<f>/domain/repositories/<f>.repository.interface.ts",
                    "Features/<f>/domain/usecases/create-<f>.usecase.ts",
                    "Features/<f>/data/models/<f>.model.ts",
                    "Features/<f>/data/datasources/<f>.datasource.ts",
                    "Features/<f>/data/repositories/<f>.repository.ts",
                    "Features/<f>/delivery/middlewares/validate-<f>.middleware.ts",
                    "Features/<f>/delivery/controllers/<f>.controller.ts",
                    "__tests__/Features/<f>/<f>.usecase.test.ts",
                    "__tests__/Features/<f>/<f>.controller.test.ts"}
UsesFields == {"Features/<f>/domain/entity/<f>.entity.ts",
               "Features/<f>/domain/usecases/create-<f>.usecase.ts",
               "Features/<f>/data/models/<f>.model.ts",
               "Features/<f>/data/datasources/<f>.datasource.ts",
               "__tests__/Features/<f>/<f>.usecase.test.ts",
               "__tests__/Features/<f>/<f>.controller.test.ts"}
UsesSample == {"__tests__/Features/<f>/<f>.usecase.test.ts",
               "__tests__/Features/<f>/<f>.controller.test.ts"}
UsesSchema == {"Features/<f>/delivery/middlewares/validate-<f>.middleware.ts"}

\* the path each writeFile of generateFeature joins under the project root
S_Create == <<"C", "r", "e", "a", "t", "e">>
S_UseCase == <<"U", "s", "e", "C", "a", "s", "e">>
S_FeaturesSlash == <<"F", "e", "a", "t", "u", "r", "e", "s", "/">>
S_testsFeaturesSlash == <<"_", "_", "t", "e", "s", "t", "s", "_", "_", "/", "F", "e", "a", "t", "u", "r", "e", "s", "/">>
S_usecasesCreate == <<"/", "d", "o", "m", "a", "i", "n", "/", "u", "s", "e", "c", "a", "s", "e", "s", "/", "c", "r", "e", "a", "t", "e", "-">>
S_dotUsecase == <<".", "u", "s", "e", "c", "a", "s", "e">>
S_dotTs == <<".", "t", "s">>
UseCaseRel == "Features/<f>/domain/usecases/create-<f>.usecase.ts"
UseCaseUsers == {"Features/<f>/container.ts",
                 "Features/<f>/delivery/controllers/<f>.controller.ts",
                 "__tests__/Features/<f>/<f>.usecase.test.ts",
                 "__tests__/Features/<f>/<f>.controller.test.ts"}
\* (both test files named <feature>.test.ts)
writtenPathOneTest(rel, feature) ==
  CASE rel = UseCaseRel -> S_FeaturesSlash \o feature \o S_usecasesCreate \o feature \o S_dotUsecase \o S_dotTs
    [] rel = "Features/<f>/container.ts" ->
         S_FeaturesSlash \o feature
           \o <<"/", "c", "o", "n", "t", "a", "i", "n", "e", "r", ".", "t", "s">>
    [] rel = "Features/<f>/domain/entity/<f>.entity.ts" ->
         S_FeaturesSlash \o feature
           \o <<"/", "d", "o", "m", "a", "i", "n", "/", "e", "n", "t", "i", "t", "y", "/">>
           \o feature \o <<".", "e", "n", "t", "i", "t", "y", ".", "t", "s">>
    [] rel = "Features/<f>/domain/repositories/<f>.repository.interface.ts" ->
         S_FeaturesSlash \o feature
           \o <<"/", "d", "o", "m", "a", "i", "n", "/", "r", "e", "p", "o", "s", "i", "t", "o", "r", "i", "e", "s", "/">>
           \o feature \o <<".", "r", "e", "p", "o", "s", "i", "t", "o", "r", "y", ".", "i", "n", "t", "e", "r", "f", "a", "c", "e", ".", "t", "s">>
    [] rel = "Features/<f>/data/models/<f>.model.ts" ->
         S_FeaturesSlash \o feature
           \o <<"/", "d", "a", "t", "a", "/", "m", "o", "d", "e", "l", "s", "/">>
           \o feature \o <<".", "m", "o", "d", "e", "l", ".", "t", "s">>
    [] rel = "Features/<f>/data/datasources/<f>.datasource.ts" ->
         S_FeaturesSlash \o feature
           \o <<"/", "d", "a", "t", "a", "/", "d", "a", "t", "a", "s", "o", "u", "r", "c", "e", "s", "/">>
           \o feature \o <<".", "d", "a", "t", "a", "s", "o", "u", "r", "c", "e", ".", "t", "s">>
    [] rel = "Features/<f>/data/repositories/<f>.repository.ts" ->
         S_FeaturesSlash \o feature
           \o <<"/", "d", "a", "t", "a", "/", "r", "e", "p", "o", "s", "i", "t", "o", "r", "i", "e", "s", "/">>
           \o feature \o <<".", "r", "e", "p", "o", "s", "i", "t", "o", "r", "y", ".", "t", "s">>
    [] rel = "Features/<f>/delivery/middlewares/validate-<f>.middleware.ts" ->
         S_FeaturesSlash \o feature
           \o <<"/", "d", "e", "l", "i", "v", "e", "r", "y", "/", "m", "i", "d", "d", "l", "e", "w", "a", "r", "e", "s", "/", "v", "a", "l", "i", "d", "a", "t", "e", "-">>
           \o feature \o <<".", "m", "i", "d", "d", "l", "e", "w", "a", "r", "e", ".", "t", "s">>
    [] rel = "Features/<f>/delivery/controllers/<f>.controller.ts" ->
         S_FeaturesSlash \o feature
           \o <<"/", "d", "e", "l", "i", "v", "e", "r", "y", "/", "c", "o", "n", "t", "r", "o", "l", "l", "e", "r", "s", "/">>
           \o feature \o <<".", "c", "o", "n", "t", "r", "o", "l", "l", "e", "r", ".", "t", "s">>
    [] rel = "__tests__/Features/<f>/<f>.usecase.test.ts" ->
         S_testsFeaturesSlash \o feature
           \o <<"/">>
           \o feature \o <<".", "t", "e", "s", "t", ".", "t", "s">>
    [] rel = "__tests__/Features/<f>/<f>.controller.test.ts" ->
         S_testsFeaturesSlash \o feature
           \o <<"/">>
           \o feature \o <<".", "t", "e", "s", "t", ".", "t", "s">>
    [] OTHER -> <<>>

writtenPath(rel, feature) ==
  CASE rel = UseCaseRel -> S_FeaturesSlash \o feature \o S_usecasesCreate \o feature \o S_dotUsecase \o S_dotTs
    [] rel = "Features/<f>/container.ts" ->
         S_FeaturesSlash \o feature
           \o <<"/", "c", "o", "n", "t", "a", "i", "n", "e", "r", ".", "t", "s">>
    [] rel = "Features/<f>/domain/entity/<f>.entity.ts" ->
         S_FeaturesSlash \o feature
           \o <<"/", "d", "o", "m", "a", "i", "n", "/", "e", "n", "t", "i", "t", "y", "/">>
           \o feature \o <<".", "e", "n", "t", "i", "t", "y", ".", "t", "s">>
    [] rel = "Features/<f>/domain/repositories/<f>.repository.interface.ts" ->
         S_FeaturesSlash \o feature
           \o <<"/", "d", "o", "m", "a", "i", "n", "/", "r", "e", "p", "o", "s", "i", "t", "o", "r", "i", "e", "s", "/">>
           \o feature \o <<".", "r", "e", "p", "o", "s", "i", "t", "o", "r", "y", ".", "i", "n", "t", "e", "r", "f", "a", "c", "e", ".", "t", "s">>
    [] rel = "Features/<f>/data/models/<f>.model.ts" ->
         S_FeaturesSlash \o feature
           \o <<"/", "d", "a", "t", "a", "/", "m", "o", "d", "e", "l", "s", "/">>
           \o feature \o <<".", "m", "o", "d", "e", "l", ".", "t", "s">>
    [] rel = "Features/<f>/data/datasources/<f>.datasource.ts" ->
         S_FeaturesSlash \o feature
           \o <<"/", "d", "a", "t", "a", "/", "d", "a", "t", "a", "s", "o", "u", "r", "c", "e", "s", "/">>
           \o feature \o <<".", "d", "a", "t", "a", "s", "o", "u", "r", "c", "e", ".", "t", "s">>
    [] rel = "Features/<f>/data/repositories/<f>.repository.ts" ->
         S_FeaturesSlash \o feature
           \o <<"/", "d", "a", "t", "a", "/", "r", "e", "p", "o", "s", "i", "t", "o", "r", "i", "e", "s", "/">>
           \o feature \o <<".", "r", "e", "p", "o", "s", "i", "t", "o", "r", "y", ".", "t", "s">>
    [] rel = "Features/<f>/delivery/middlewares/validate-<f>.middleware.ts" ->
         S_FeaturesSlash \o feature
           \o <<"/", "d", "e", "l", "i", "v", "e", "r", "y", "/", "m", "i", "d", "d", "l", "e", "w", "a", "r", "e", "s", "/", "v", "a", "l", "i", "d", "a", "t", "e", "-">>
           \o feature \o <<".", "m", "i", "d", "d", "l", "e", "w", "a", "r", "e", ".", "t", "s">>
    [] rel = "Features/<f>/delivery/controllers/<f>.controller.ts" ->
         S_FeaturesSlash \o feature
           \o <<"/", "d", "e", "l", "i", "v", "e", "r", "y", "/", "c", "o", "n", "t", "r", "o", "l", "l", "e", "r", "s", "/">>
           \o feature \o <<".", "c", "o", "n", "t", "r", "o", "l", "l", "e", "r", ".", "t", "s">>
    [] rel = "__tests__/Features/<f>/<f>.usecase.test.ts" ->
         S_testsFeaturesSlash \o feature
           \o <<"/">>
           \o feature \o <<".", "u", "s", "e", "c", "a", "s", "e", ".", "t", "e", "s", "t", ".", "t", "s">>
    [] rel = "__tests__/Features/<f>/<f>.controller.test.ts" ->
         S_testsFeaturesSlash \o feature
           \o <<"/">>
           \o feature \o <<".", "c", "o", "n", "t", "r", "o", "l", "l", "e", "r", ".", "t", "e", "s", "t", ".", "t", "s">>
    [] OTHER -> <<>>

\* the import specifier of the use case in each template that references it
useCaseImport(rel, feature) ==
  CASE rel = "Features/<f>/container.ts" ->
         <<".">> \o S_usecasesCreate \o feature \o S_dotUsecase
    [] rel = "Features/<f>/delivery/controllers/<f>.controller.ts" ->
         <<".", ".", "/", ".", ".">> \o S_usecasesCreate \o feature \o S_dotUsecase
    [] rel \in {"__tests__/Features/<f>/<f>.usecase.test.ts", "__tests__/Features/<f>/<f>.controller.test.ts"} ->
         <<".", ".", "/", ".", ".", "/", ".", ".", "/">> \o S_FeaturesSlash \o feature
           \o S_usecasesCreate \o feature \o S_dotUsecase
    [] OTHER -> <<>>

\* a container template that names the use case with the raw feature name
useCaseRefRawInContainer(rel, feature) ==
  IF rel = "Features/<f>/container.ts"
  THEN [ident |-> S_Create \o feature \o S_UseCase, from |-> useCaseImport(rel, feature)]
  ELSE IF rel \in UseCaseUsers \cup {UseCaseRel}
  THEN [ident |-> S_Create \o capitalize(feature) \o S_UseCase, from |-> useCaseImport(rel, feature)]
  ELSE [ident |-> <<>>, from |-> <<>>]

\* Create${capitalize(feature)}UseCase as the templates declare and import it
useCaseRef(rel, feature) ==
  IF rel \in UseCaseUsers \cup {UseCaseRel}
  THEN [ident |-> S_Create \o capitalize(feature) \o S_UseCase, from |-> useCaseImport(rel, feature)]
  ELSE [ident |-> <<>>, from |-> <<>>]

featureFile(rel, feature, fields, zodSchema, sampleJson) ==
  [tmpl |-> rel,
   body |-> [feature |-> feature,
             usecase |-> useCaseRef(rel, feature),
             fields |-> IF rel \in UsesFields THEN fields ELSE <<>>,
             schema |-> IF rel \in UsesSchema THEN zodSchema ELSE <<>>,
             sample |-> IF rel \in UsesSample THEN sampleJson ELSE <<>>]]

\* generateFeature: the steps it awaits, the feature directories and then the
\* eleven files.
\* relativeRoot: projectRoot is a relative path and the process has already
\* changed into it, so path.join(projectRoot, ...) resolves below
\* <root>/<projectRoot>.
\* (first, the same two steps awaited in the opposite order)
generateFeatureFilesFirst(relativeRoot, feature, fields) ==
  LET zodSchema == getZodSchema(fields)
      sampleJson == getSampleJson(fields)
  IN << writeStep([p \in {FeaturePath(relativeRoot, feature, rel) : rel \in FeatureFileRels} |->
                     featureFile(p.rel, feature, fields, zodSchema, sampleJson)]),
        mkdirStep(featureDirs(relativeRoot, feature)) >>

generateFeature(relativeRoot, feature, fields) ==
  LET zodSchema == getZodSchema(fields)
      sampleJson == getSampleJson(fields)
  IN << mkdirStep(featureDirs(relativeRoot, feature)),
        writeStep([p \in {FeaturePath(relativeRoot, feature, rel) : rel \in FeatureFileRels} |->
                     featureFile(p.rel, feature, fields, zodSchema, sampleJson)]) >>

\* the condition of the "already exists" check, switched off
accessNever(f) == FALSE

\* await fs.access(projectRoot).then(() => true).catch(() => false)
access(f) == f.root

\* the for loop over the features in createProject; stops at the first parse error
RECURSIVE generateFeatures(_, _, _, _, _)
generateFeatures(relativeRoot, features, i, sampleJsons, steps) ==
  IF i > Len(features) THEN [steps |-> steps, ok |-> TRUE, sampleJsons |-> sampleJsons]
  ELSE LET body(parsedFields) ==
             IF ~parsedFields.ok THEN [steps |-> steps, ok |-> FALSE, sampleJsons |-> sampleJsons]
             ELSE generateFeatures(relativeRoot, features, i + 1,
                                   Append(sampleJsons, getSampleJson(parsedFields.fields)),
                                   steps \o generateFeature(relativeRoot, features[i].name, parsedFields.fields))
       IN body(parseFields(orDefault(features[i].fields)))

\* createProject(projectName, pathSpec, features) in the environment env: the
\* file system and the exit status it ends with, and the steps it issued
createProject(f, proj, features, env) ==
  IF access(f) THEN [fs |-> f, exit |-> 1, ops |-> <<>>, failedAt |-> 0]
  ELSE LET relativeRoot == proj.path = "relative"
           directories == {CorePath(rel) : rel \in CoreDirRels}
                            \cup UNION {featureDirs(FALSE, features[i].name) : i \in 1..Len(features)}
           coreFiles == [p \in {CorePath(rel) : rel \in CoreTemplates \cup {"Server/index.ts"}} |->
                           IF p.rel = "Server/index.ts" THEN serverIndexTs(features)
                           ELSE coreFile(p.rel, proj.name)]
           readme(sampleJsons) ==
             [p \in {CorePath("README.md")} |-> readmeMd(proj.name, features, sampleJsons)]
           \* the README is written when the loop has finished
           plan(loop) ==
             [steps |-> IF loop.ok THEN Append(loop.steps, writeStep(readme(loop.sampleJsons)))
                        ELSE loop.steps,
              ok |-> loop.ok]
           ended(p, run) ==
             [fs |-> run.fs,
              exit |-> IF run.failedAt # 0 \/ ~p.ok THEN 1 ELSE 0,
              ops |-> issuedOps(p.steps, run.issued),
              failedAt |-> run.failedAt]
           execute(p) == ended(p, awaitSteps(f, p.steps, 1, env))
       IN execute(plan(generateFeatures(relativeRoot, features, 1, <<>>,
                         <<mkdirStep({RootPath}), mkdirStep(directories), writeStep(coreFiles)>>)))

\* the action of `create <project-name> [path]`: the values collected for the
\* repeated option are scanned for the prefixes --feature= and --fields=, and
\* what follows the first '=' (up to the next one) is taken
S_featureEq == <<"-", "-", "f", "e", "a", "t", "u", "r", "e", "=">>
S_fieldsEq == <<"-", "-", "f", "i", "e", "l", "d", "s", "=">>
\* (a scan that stores every --fields= value in the first feature)
RECURSIVE scanOptionsFirst(_, _, _, _)
scanOptionsFirst(args, i, features, currentFeature) ==
  IF i > Len(args) THEN features
  ELSE IF startsWith(args[i], S_featureEq)
       THEN scanOptionsFirst(args, i + 1,
                             Append(features, [name |-> AfterEq(args[i]), fields |-> <<>>]),
                             AfterEq(args[i]))
       ELSE IF startsWith(args[i], S_fieldsEq) /\ Truthy(currentFeature)
            THEN scanOptionsFirst(args, i + 1,
                                  [features EXCEPT ![1].fields = AfterEq(args[i])],
                                  currentFeature)
            ELSE scanOptionsFirst(args, i + 1, features, currentFeature)

RECURSIVE scanOptions(_, _, _, _)
scanOptions(args, i, features, currentFeature) ==
  IF i > Len(args) THEN features
  ELSE IF startsWith(args[i], S_featureEq)
       THEN scanOptions(args, i + 1,
                        Append(features, [name |-> AfterEq(args[i]), fields |-> <<>>]),
                        AfterEq(args[i]))
       ELSE IF startsWith(args[i], S_fieldsEq) /\ Truthy(currentFeature)
            THEN scanOptions(args, i + 1,
                             [features EXCEPT ![Len(features)].fields = AfterEq(args[i])],
                             currentFeature)
            ELSE scanOptions(args, i + 1, features, currentFeature)

createAction(f, proj, args, env) ==
  LET features == scanOptions(args, 1, <<>>, Undefined)
  IN [result |-> createProject(f, proj, features, env), features |-> features]

(***************************************************************************)
(* Roster recovery of the Node generator                                   *)
(***************************************************************************)
allWordChars(t) == \A k \in 1..Len(t) : isWordChar(t[k])

\* /import { (\w+)Controller }/ on the line `import { <ident> } from ...`,
\* then m.match(/(\w+)Controller/)[1].toLowerCase(); <<>> when the line does
\* not match
recoverFromImport(ident) ==
  LET text == ident \o <<" ", "}">>
      tail == S_Controller \o <<" ", "}">>
      cands == {n \in 1..Len(ident) :
                  /\ allWordChars(SubSeq(ident, 1, n))
                  /\ n + Len(tail) <= Len(text)
                  /\ SubSeq(text, n + 1, n + Len(tail)) = tail}
  IN IF cands = {} THEN <<>>
     ELSE toLowerCase(SubSeq(ident, 1, CHOOSE n \in cands : \A m \in cands : m <= n))

\* serverContent.match(/import { (\w+)Controller }/g)?.map(...) || []
recoverServerRoster(server) ==
  LET RECURSIVE go(_)
      go(i) == IF i > Len(server.imports) THEN <<>>
               ELSE LET r == recoverFromImport(server.imports[i])
                    IN (IF r = <<>> THEN <<>> ELSE <<[name |-> r, fields |-> <<>>]>>) \o go(i + 1)
  IN go(1)

\* the README text as far as the patterns that scan it can tell: the heading
\* line, per feature the `- Create a <name>:` line and the curl line
\* (.../api/<name> -H ... -d '<sample>'), and the feature list of the
\* structure section
readmeText(readme) ==
  LET RECURSIVE entries(_)
      entries(i) ==
        IF i > Len(readme.testing) THEN <<>>
        ELSE <<"-", " ">> \o S_CreateA \o readme.testing[i].name \o <<":", NL>>
               \o <<"/", "a", "p", "i", "/">> \o readme.testing[i].name \o <<" ", "-", "d", " ", "'">>
               \o readme.testing[i].sample \o <<"'", NL>> \o entries(i + 1)
  IN <<"#", " ">> \o readme.heading \o <<NL>> \o entries(1)
       \o <<"(">> \o join(readme.modules, <<",", " ">>) \o <<")", NL>>

\* the longest run of \w characters of text starting at position i
wordAt(text, i) ==
  LET RECURSIVE run(_)
      run(k) == IF k > Len(text) \/ ~isWordChar(text[k]) THEN <<>> ELSE <<text[k]>> \o run(k + 1)
  IN run(i)

\* readmeContent.match(/Create a (\w+)/g)?.map(m => m.split(' ')[2]) || []
matchCreateA(text) ==
  LET n == Len(S_CreateA)
      starts == {i \in 1..(Len(text) - n) :
                   SubSeq(text, i, i + n - 1) = S_CreateA /\ isWordChar(text[i + n])}
      RECURSIVE scan(_)
      scan(from) ==
        LET avail == {i \in starts : i >= from}
        IN IF avail = {} THEN <<>>
           ELSE LET i == CHOOSE a \in avail : \A b \in avail : a <= b
                    w == wordAt(text, i + n)
                IN <<w>> \o scan(i + n + Len(w))
  IN scan(1)

\* readmeContent.match(/^# (.+)/m)?.[1] || 'Project'
recoverProjectName(readme) ==
  LET line == split(readme.heading, NL)[1]
  IN IF line = <<>> THEN S_Project ELSE line

\* the new bootstrap file: the recovered features followed by the new one
addFeatureServer(server, feature) == serverIndexTs(recoverServerRoster(server) \o <<feature>>)

\* the new README: the features found in the old one followed by the new one
addFeatureReadme(readme, featureName, fields) ==
  LET existingFeatures == matchCreateA(readmeText(readme))
      names == existingFeatures \o <<featureName>>
      newFeatures == [i \in 1..Len(names) |->
                        [name |-> names[i], fields |-> IF names[i] = featureName THEN fields ELSE <<>>]]
      sampleJsons == [i \in 1..Len(names) |->
                        getSampleJson(parseFields(orDefault(newFeatures[i].fields)).fields)]
  IN readmeMd(recoverProjectName(readme), newFeatures, sampleJsons)

\* addFeature(featureName, fields), run from the project root in the
\* environment env.  Server/index.ts and README.md are read after the feature
\* files are written; a missing README makes readFile throw after the
\* bootstrap file has been rewritten.
addFeature(f, featureName, fields, env) ==
  IF ~fileExists(f, CorePath("Server/index.ts")) THEN [fs |-> f, exit |-> 1, ops |-> <<>>, failedAt |-> 0]
  ELSE LET feature == [name |-> featureName, fields |-> fields]
           server == [p \in {CorePath("Server/index.ts")} |->
                        addFeatureServer(f.files[CorePath("Server/index.ts")].body, feature)]
           readme == [p \in {CorePath("README.md")} |->
                        addFeatureReadme(f.files[CorePath("README.md")].body, featureName, fields)]
           plan(parsedFields, hasReadme) ==
             [steps |-> generateFeature(FALSE, featureName, parsedFields.fields)
                          \o <<writeStep(server)>>
                          \o (IF hasReadme THEN <<writeStep(readme)>> ELSE <<>>),
              ok |-> hasReadme]
           ended(p, run) ==
             [fs |-> run.fs,
              exit |-> IF run.failedAt # 0 \/ ~p.ok THEN 1 ELSE 0,
              ops |-> issuedOps(p.steps, run.issued),
              failedAt |-> run.failedAt]
           execute(p) == ended(p, awaitSteps(f, p.steps, 1, env))
           body(parsedFields) ==
             IF ~parsedFields.ok THEN [fs |-> f, exit |-> 1, ops |-> <<>>, failedAt |-> 0]
             ELSE execute(plan(parsedFields, fileExists(f, CorePath("README.md"))))
       IN body(parseFields(orDefault(fields)))

(***************************************************************************)
(* The bash generator                                                      *)
(***************************************************************************)
S_myExpressApi == <<"m", "y", "-", "e", "x", "p", "r", "e", "s", "s", "-", "a", "p", "i">>

\* IFS=':' read -r name type rule <<< "$pair": the third variable takes the
\* rest of the line; a lone trailing ':' after a single last field is dropped
readThree(pair) ==
  LET p == split(pair, ":")
      rest == SubSeq(p, 3, Len(p))
  IN [name |-> p[1],
      type |-> IF Len(p) >= 2 THEN p[2] ELSE <<>>,
      rule |-> IF Len(rest) = 2 /\ rest[2] = <<>> THEN rest[1] ELSE join(rest, <<":">>)]

\* parse_fields: never fails
parse_fields(fields) ==
  LET pairs == ReadArray(fields, ",")
  IN [i \in 1..Len(pairs) |-> readThree(pairs[i])]

\* lines 386-849 of the script, common to both commands: Server/index.ts from
\* FEATURES, then per feature the directories and files, then README.md
RECURSIVE bashFeatures(_, _, _, _)
bashFeatures(FEATURES, i, sample_jsons, steps) ==
  IF i > Len(FEATURES) THEN [steps |-> steps, sample_jsons |-> sample_jsons]
  ELSE LET feature == FEATURES[i].name
           names(fields) == [k \in 1..Len(fields) |-> fields[k].name]
           types(fields) == [k \in 1..Len(fields) |-> fields[k].type]
           rules(fields) == [k \in 1..Len(fields) |-> fields[k].rule]
           sample_of(fields) == sample_json(names(fields), types(fields), rules(fields))
           schema_of(fields) == get_zod_schema(names(fields), types(fields), rules(fields))
           files(fields, schema, sample) ==
             bashFeatures(FEATURES, i + 1, Append(sample_jsons, sample),
                          steps \o << mkdirStep(featureDirs(FALSE, feature)),
                                      writeStep([p \in {FeaturePath(FALSE, feature, rel) : rel \in FeatureFileRels} |->
                                                   featureFile(p.rel, feature, fields, schema, sample)]) >>)
           body(fields) == files(fields, schema_of(fields), sample_of(fields))
       IN body(parse_fields(orDefault(FEATURES[i].fields)))

\* the part both commands share: Server/index.ts, the features, README.md
bashGenerate(PROJECT_NAME, FEATURES) ==
  LET server == [p \in {CorePath("Server/index.ts")} |-> serverIndexTs(FEATURES)]
      readme(sample_jsons) ==
        [p \in {CorePath("README.md")} |-> readmeMd(PROJECT_NAME, FEATURES, sample_jsons)]
      plan(loop) == Append(loop.steps, writeStep(readme(loop.sample_jsons)))
  IN plan(bashFeatures(FEATURES, 1, <<>>, <<writeStep(server)>>))

\* [ -d "$PROJECT_ROOT" ]
isDirectory(f) == f.root

\* the create branch: the project directory (cd "$PROJECT_ROOT" || exit ends
\* the script when it could not be made), package.json, the core directories
\* and core files, then the common part.  The last command is an echo:
\* status 0.  (npm init / npm install act outside the generated tree and are
\* left out.)
bashCreate(f, proj, FEATURES, env) ==
  IF isDirectory(f) THEN [fs |-> f, exit |-> 1, ops |-> <<>>, failedAt |-> 0]
  ELSE IF RootPath \in env.broken
       THEN [fs |-> f, exit |-> 1, ops |-> issuedOps(<<mkdirStep({RootPath})>>, 1), failedAt |-> 1]
  ELSE LET manifest == [p \in {CorePath("package.json")} |-> coreFile(p.rel, proj.name)]
           coreFiles == [p \in {CorePath(rel) : rel \in CoreTemplates \ {"package.json"}} |->
                           coreFile(p.rel, proj.name)]
           ended(steps, run) ==
             [fs |-> run.fs, exit |-> 0, ops |-> issuedOps(steps, run.issued), failedAt |-> run.failedAt]
           execute(steps) == ended(steps, runCommands(f, steps, 1, env, 0))
       IN execute(<< mkdirStep({RootPath}), writeStep(manifest),
                     mkdirStep({CorePath(rel) : rel \in CoreDirRels}), writeStep(coreFiles) >>
                    \o bashGenerate(proj.name, FEATURES))

\* the feature branch: FEATURES holds the new feature only and PROJECT_NAME
\* keeps its default
bashFeature(f, feature, fields, env) ==
  IF ~fileExists(f, CorePath("Server/index.ts")) THEN [fs |-> f, exit |-> 1, ops |-> <<>>, failedAt |-> 0]
  ELSE LET ended(steps, run) ==
             [fs |-> run.fs, exit |-> 0, ops |-> issuedOps(steps, run.issued), failedAt |-> run.failedAt]
           execute(steps) == ended(steps, runCommands(f, steps, 1, env, 0))
       IN execute(bashGenerate(S_myExpressApi, <<[name |-> feature, fields |-> fields]>>))

\* the while loop over the arguments of the create branch: --feature NAME
\* opens a feature with an empty field spec, --fields SPEC sets the spec of
\* the feature opened last; a missing or empty value, a --fields before any
\* --feature and any other word end the script with status 1
S_dashFeature == <<"-", "-", "f", "e", "a", "t", "u", "r", "e">>
S_dashFields == <<"-", "-", "f", "i", "e", "l", "d", "s">>

\* [ -z "$1" ] after the shift: no word is left, or the word is empty
noWord(words, i) == i > Len(words) \/ words[i] = <<>>

RECURSIVE scanArguments(_, _, _, _)
scanArguments(words, i, FEATURES, current_feature) ==
  IF i > Len(words) THEN [ok |-> TRUE, FEATURES |-> FEATURES]
  ELSE IF words[i] = S_dashFeature
       THEN IF noWord(words, i + 1) THEN [ok |-> FALSE, FEATURES |-> FEATURES]
            ELSE scanArguments(words, i + 2,
                               Append(FEATURES, [name |-> words[i + 1], fields |-> <<>>]),
                               words[i + 1])
       ELSE IF words[i] = S_dashFields
            THEN IF current_feature = <<>> \/ noWord(words, i + 1)
                 THEN [ok |-> FALSE, FEATURES |-> FEATURES]
                 ELSE scanArguments(words, i + 2,
                                    [FEATURES EXCEPT ![Len(FEATURES)].fields = words[i + 1]],
                                    current_feature)
            ELSE [ok |-> FALSE, FEATURES |-> FEATURES]

\* (the create branch entered whatever the scan found)
bashCreateCommandUnchecked(f, proj, words, env) ==
  LET body(scan) ==
        [result |-> bashCreate(f, proj, scan.FEATURES, env), features |-> scan.FEATURES]
  IN body(scanArguments(words, 1, <<>>, <<>>))

\* the script run as `tsclean <project-name> [path] words...`: the scan, and
\* the create branch when the scan went through
bashCreateCommand(f, proj, words, env) ==
  LET body(scan) ==
        [result |-> IF scan.ok THEN bashCreate(f, proj, scan.FEATURES, env)
                    ELSE [fs |-> f, exit |-> 1, ops |-> <<>>, failedAt |-> 0],
         features |-> scan.FEATURES]
  IN body(scanArguments(words, 1, <<>>, <<>>))

(***************************************************************************)
(* Idle values of the variables a specification does not use               *)
(***************************************************************************)
NotParsed == [ok |-> FALSE, fields |-> <<"not parsed">>]
IdleRun == /\ gen = "none"
           /\ project = [name |-> <<>>, path |-> "relative"]
           /\ fs = EmptyFs
           /\ last = NoRun
           /\ roster = NoRoster
           /\ runs = 0
           /\ environ = [broken |-> {}, others |-> FALSE]
IdleParse == input = <<>> /\ parsed = NotParsed
NoZod == [gen |-> "none", validators |-> <<>>, schema |-> <<>>]
NoSample == [gen |-> "none", values |-> <<>>, json |-> <<>>]
NoTypes == [gen |-> "none", ts |-> <<>>, mongoose |-> <<>>]
IdleRule == fieldList = <<>> /\ zodOut = NoZod /\ sampleOut = NoSample /\ typeOut = NoTypes

(***************************************************************************)
(* SpecParse: parseFields applied to every short spec string               *)
(***************************************************************************)
SpecAlphabet == {"a", "b", ":", ","}

RECURSIVE StringsUpTo(_, _)
StringsUpTo(alphabet, n) ==
  IF n = 0 THEN {<<>>}
  ELSE LET shorter == StringsUpTo(alphabet, n - 1)
       IN shorter \cup {Append(s, c) : s \in shorter, c \in alphabet}

InitParse == /\ input \in StringsUpTo(SpecAlphabet, MaxSpecLen)
             /\ parsed = NotParsed
             /\ IdleRun
             /\ IdleRule

Parse == /\ parsed = NotParsed
         /\ parsed' = parseFields(input)
         /\ UNCHANGED <<input, runVars, ruleVars>>

NextParse == Parse

SpecParse == InitParse /\ [][NextParse]_vars

(***************************************************************************)
(* Claims about the field grammar                                          *)
(***************************************************************************)
\* the colon-delimited parts of one entry, as the grammar counts them
PartsOf(entry) == split(entry, ":")
WellFormedEntry(entry) ==
  /\ Len(PartsOf(entry)) \in {2, 3}
  /\ \A k \in 1..Len(PartsOf(entry)) : PartsOf(entry)[k] # <<>>
EntriesOf(s) == split(s, ",")
ValidSpecString(s) == \A i \in 1..Len(EntriesOf(s)) : WellFormedEntry(EntriesOf(s)[i])

\* re-serialising one descriptor as name:type[:rule]
Serialize(f) == f.name \o <<":">> \o f.type \o (IF f.rule = Undefined THEN <<>> ELSE <<":">> \o f.rule)
SerializeAll(fields) == join([i \in 1..Len(fields) |-> Serialize(fields[i])], <<",">>)

\* C5: for every spec string made of well-formed entries name:type[:rule],
\* parsing and re-serialising the descriptors reproduces the string, with one
\* descriptor per entry in the same order.
C5_RoundTrip ==
  (parsed # NotParsed /\ ValidSpecString(input)) =>
     /\ parsed.ok
     /\ Len(parsed.fields) = Len(EntriesOf(input))
     /\ SerializeAll(parsed.fields) = input

C5_Witness ==
  /\ parsed # NotParsed
  /\ ValidSpecString(input)
  /\ Len(EntriesOf(input)) = 2
  /\ parsed.ok
  /\ parsed.fields[1].name # parsed.fields[2].name

\* C6: a non-empty spec string is accepted only if every entry has 2 or 3
\* non-empty colon-delimited parts; one bad entry anywhere fails the whole
\* parse and no descriptor is returned.
C6_AllOrNothing ==
  (parsed # NotParsed /\ input # <<>>) =>
     /\ parsed.ok => ValidSpecString(input)
     /\ ~ValidSpecString(input) => (~parsed.ok /\ parsed.fields = <<>>)

C6_Witness ==
  /\ parsed # NotParsed
  /\ Len(EntriesOf(input)) = 2
  /\ WellFormedEntry(EntriesOf(input)[1])
  /\ ~WellFormedEntry(EntriesOf(input)[2])
  /\ ~parsed.ok

(***************************************************************************)
(* SpecRule: the rule compiler and the sample generator applied to short   *)
(* field lists                                                             *)
(***************************************************************************)
RuleTypes == {S_string, S_number, S_boolean, <<"d", "a", "t", "e">>, <<"S", "t", "r", "i", "n", "g">>, <<>>}
RuleTexts ==
  { Undefined,
    S_email,
    <<"E", "m", "a", "i", "l">>,
    <<"m", "i", "n", "l", "e", "n", "g", "t", "h", "=", "3">>,
    <<"m", "a", "x", "l", "e", "n", "g", "t", "h", "=", "9">>,
    <<"m", "i", "n", "=", "1", "8">>,
    <<"m", "a", "x", "=", "5">>,
    <<"m", "i", "n">>,
    <<"r", "e", "q", "u", "i", "r", "e", "d">>,
    <<"e", "n", "u", "m", "=", "o", "p", "e", "n", "|", "c", "l", "o", "s", "e", "d">>,
    <<"e", "n", "u", "m", "=", "a", "=", "b", "|", "c">> }
RuleFields == [name : {<<"x">>}, type : RuleTypes, rule : RuleTexts]

InitRule == /\ fieldList \in ListsUpTo(RuleFields, MaxFields)
            /\ zodOut = NoZod
            /\ sampleOut = NoSample
            /\ typeOut = NoTypes
            /\ IdleRun
            /\ IdleParse

\* field_rules+=("${rule:-}") : an absent rule is the empty string in bash
BashRule(r) == IF r = Undefined THEN <<>> ELSE r
BashNames == [i \in 1..Len(fieldList) |-> fieldList[i].name]
BashTypes == [i \in 1..Len(fieldList) |-> fieldList[i].type]
BashRules == [i \in 1..Len(fieldList) |-> BashRule(fieldList[i].rule)]

Untouched == zodOut = NoZod /\ sampleOut = NoSample /\ typeOut = NoTypes

CompileNode ==
  /\ Untouched
  /\ zodOut' = [gen |-> "node",
                validators |-> [i \in 1..Len(fieldList) |-> zodType(fieldList[i].type, fieldList[i].rule)],
                schema |-> getZodSchema(fieldList)]
  /\ UNCHANGED <<fieldList, sampleOut, typeOut, runVars, parseVars>>

CompileBash ==
  /\ Untouched
  /\ zodOut' = [gen |-> "bash",
                validators |-> [i \in 1..Len(fieldList) |-> zod_type(BashTypes[i], BashRules[i])],
                schema |-> get_zod_schema(BashNames, BashTypes, BashRules)]
  /\ UNCHANGED <<fieldList, sampleOut, typeOut, runVars, parseVars>>

SampleNode ==
  /\ Untouched
  /\ sampleOut' = [gen |-> "node",
                   values |-> [i \in 1..Len(fieldList) |->
                                 sampleValue(fieldList[i].name, fieldList[i].type, fieldList[i].rule)],
                   json |-> getSampleJson(fieldList)]
  /\ UNCHANGED <<fieldList, zodOut, typeOut, runVars, parseVars>>

SampleBash ==
  /\ Untouched
  /\ sampleOut' = [gen |-> "bash",
                   values |-> [i \in 1..Len(fieldList) |->
                                 sample_value(BashNames[i], BashTypes[i], BashRules[i])],
                   json |-> sample_json(BashNames, BashTypes, BashRules)]
  /\ UNCHANGED <<fieldList, zodOut, typeOut, runVars, parseVars>>

MapTypes ==
  /\ Untouched
  /\ typeOut' = [gen |-> "node",
                 ts |-> [i \in 1..Len(fieldList) |-> toTsType(fieldList[i].type)],
                 mongoose |-> [i \in 1..Len(fieldList) |-> toMongooseType(fieldList[i].type)]]
  /\ UNCHANGED <<fieldList, zodOut, sampleOut, runVars, parseVars>>

NextRule == CompileNode \/ CompileBash \/ SampleNode \/ SampleBash \/ MapTypes

SpecRule == InitRule /\ [][NextRule]_vars

(***************************************************************************)
(* Claims about the rule compiler and the sample values                    *)
(***************************************************************************)
\* the rule patterns of the grammar table, read literally
IsEmailRule(r) == r = <<"e", "m", "a", "i", "l">>
HasPrefix(r, p) == Len(r) >= Len(p) /\ \A k \in 1..Len(p) : r[k] = p[k]
IsMinlengthRule(r) == HasPrefix(r, <<"m", "i", "n", "l", "e", "n", "g", "t", "h", "=">>)
IsMaxlengthRule(r) == HasPrefix(r, <<"m", "a", "x", "l", "e", "n", "g", "t", "h", "=">>)
IsMinRule(r) == HasPrefix(r, <<"m", "i", "n", "=">>)
IsMaxRule(r) == HasPrefix(r, <<"m", "a", "x", "=">>)
IsEnumRule(r) == HasPrefix(r, <<"e", "n", "u", "m", "=">>)
KnownRule(r) ==
  IsEmailRule(r) \/ IsMinlengthRule(r) \/ IsMaxlengthRule(r) \/ IsMinRule(r) \/ IsMaxRule(r) \/ IsEnumRule(r)
GivenRule(r) == r # Undefined /\ r # <<>>

\* the bare type validator of the type table
BareOf(t) ==
  CASE t = <<"s", "t", "r", "i", "n", "g">> -> <<"z", ".", "s", "t", "r", "i", "n", "g", "(", ")">>
    [] t = <<"n", "u", "m", "b", "e", "r">> -> <<"z", ".", "n", "u", "m", "b", "e", "r", "(", ")">>
    [] t = <<"b", "o", "o", "l", "e", "a", "n">> -> <<"z", ".", "b", "o", "o", "l", "e", "a", "n", "(", ")">>
    [] OTHER -> <<"z", ".", "a", "n", "y", "(", ")">>

\* the text of `    name: validator,` as it stands in the emitted schema
Contains(text, piece) ==
  \E i \in 1..(Len(text) - Len(piece) + 1) : SubSeq(text, i, i + Len(piece) - 1) = piece

\* the first literal listed by an enum rule: the text between "enum=" and the first '|'
FirstListed(r) ==
  LET rest == SubSeq(r, 6, Len(r))
      RECURSIVE upto(_)
      upto(i) == IF i > Len(rest) \/ rest[i] = "|" THEN <<>> ELSE <<rest[i]>> \o upto(i + 1)
  IN upto(1)

\* C8: in the sample JSON a string field with rule email gets a literal e-mail
\* address, a string field with rule enum=a|b|c gets the first listed literal,
\* and a number field gets 123 whatever its rule.
C8_SampleReflectsRules ==
  sampleOut # NoSample =>
    \A i \in 1..Len(fieldList) :
      LET f == fieldList[i]
          v == sampleOut.values[i]
      IN /\ (f.type = S_string /\ IsEmailRule(f.rule)) => v = S_testEmail
         /\ (f.type = S_string /\ IsEnumRule(f.rule)) => v = <<DQ>> \o FirstListed(f.rule) \o <<DQ>>
         /\ f.type = S_number => v = <<"1", "2", "3">>

\* C9: a rule text that matches none of email, minlength=, maxlength=, min=,
\* max=, enum= (case-sensitively) is ignored: the validator of the field is
\* exactly the bare type validator and the schema is still emitted.
C9_UnknownRuleIgnored ==
  zodOut # NoZod =>
    /\ \A i \in 1..Len(fieldList) :
         (GivenRule(fieldList[i].rule) /\ ~KnownRule(fieldList[i].rule))
            => zodOut.validators[i] = BareOf(fieldList[i].type)
    /\ Len(zodOut.validators) = Len(fieldList)
    /\ (\A i \in 1..Len(fieldList) : ~KnownRule(fieldList[i].rule)) =>
         \A i \in 1..Len(fieldList) :
            Contains(zodOut.schema, <<"x", ":", " ">> \o BareOf(fieldList[i].type) \o <<",">>)

C9_Witness ==
  /\ zodOut # NoZod
  /\ Len(fieldList) = 2
  /\ fieldList[1].rule = <<"E", "m", "a", "i", "l">>
  /\ fieldList[1].type = S_string
  /\ fieldList[2].rule = <<"m", "i", "n">>
  /\ fieldList[2].type = S_number
  /\ zodOut.validators = <<S_zString, S_zNumber>>

\* C11: the type mapping is total: string, number and boolean map to their
\* target-language type, their storage type and their sample literal (123 for
\* number, true for boolean); every other token, the empty one included, maps
\* to any, Mixed and null.
KnownType(t) ==
  t \in {<<"s", "t", "r", "i", "n", "g">>, <<"n", "u", "m", "b", "e", "r">>,
         <<"b", "o", "o", "l", "e", "a", "n">>}
C11_TypeMappingTotal ==
  /\ typeOut # NoTypes =>
       /\ Len(typeOut.ts) = Len(fieldList) /\ Len(typeOut.mongoose) = Len(fieldList)
       /\ \A i \in 1..Len(fieldList) :
            LET t == fieldList[i].type
            IN /\ KnownType(t) => typeOut.ts[i] = t
               /\ t = <<"s", "t", "r", "i", "n", "g">> => typeOut.mongoose[i] = <<"S", "t", "r", "i", "n", "g">>
               /\ t = <<"n", "u", "m", "b", "e", "r">> => typeOut.mongoose[i] = <<"N", "u", "m", "b", "e", "r">>
               /\ t = <<"b", "o", "o", "l", "e", "a", "n">> => typeOut.mongoose[i] = <<"B", "o", "o", "l", "e", "a", "n">>
               /\ ~KnownType(t) => /\ typeOut.ts[i] = <<"a", "n", "y">>
                                   /\ typeOut.mongoose[i] = <<"M", "i", "x", "e", "d">>
  /\ (sampleOut # NoSample /\ sampleOut.gen = "node") =>
       /\ Len(sampleOut.values) = Len(fieldList)
       /\ \A i \in 1..Len(fieldList) :
            LET t == fieldList[i].type
            IN /\ t = <<"n", "u", "m", "b", "e", "r">> => sampleOut.values[i] = <<"1", "2", "3">>
               /\ t = <<"b", "o", "o", "l", "e", "a", "n">> => sampleOut.values[i] = <<"t", "r", "u", "e">>
               /\ ~KnownType(t) => sampleOut.values[i] = <<"n", "u", "l", "l">>

C11_Witness ==
  /\ typeOut # NoTypes
  /\ Len(fieldList) = 2
  /\ fieldList[1].type = <<>>
  /\ fieldList[2].type = <<"S", "t", "r", "i", "n", "g">>
  /\ typeOut.ts = <<(<<"a", "n", "y">>), (<<"a", "n", "y">>)>>
  /\ typeOut.mongoose[1] = <<"M", "i", "x", "e", "d">>

\* C10: a rule has a schema effect only on fields of the type it applies to
\* (email, minlength=, maxlength=, enum= on string; min=, max= on number); on a
\* field of another type the validator stays the bare type validator.
C10_RuleOnlyOnItsType ==
  zodOut # NoZod =>
    \A i \in 1..Len(fieldList) :
      LET f == fieldList[i]
          stringRule == IsEmailRule(f.rule) \/ IsMinlengthRule(f.rule) \/ IsMaxlengthRule(f.rule) \/ IsEnumRule(f.rule)
          numberRule == IsMinRule(f.rule) \/ IsMaxRule(f.rule)
      IN /\ (stringRule /\ f.type # S_string) => zodOut.validators[i] = BareOf(f.type)
         /\ (numberRule /\ f.type # S_number) => zodOut.validators[i] = BareOf(f.type)

(***************************************************************************)
(* Spec: runs of create and feature against one project root               *)
(***************************************************************************)
Generators == {"node", "bash"}
\* a one-line project name, and one that holds a line break
ProjectNames == {<<"P">>, <<"P", NL, "Q">>}
PathSpecs == {"relative", "absolute"}
NoFields == <<>>
BadFieldsNoColon == <<"n", "a", "m", "e">>
BadFieldsFourParts == <<"a", ":", "b", ":", "c", ":", "d">>
EnumFields ==
  <<"s", ":", "s", "t", "r", "i", "n", "g", ":", "e", "n", "u", "m", "=",
    "C", "r", "e", "a", "t", "e", " ", "a", " ", "z", "|", "n", "o">>
\* the --feature/--fields pairs a create run may be given
CreateArgs ==
  { [name |-> <<"a">>, fields |-> NoFields],
    [name |-> <<"b">>, fields |-> EnumFields],
    [name |-> <<"b">>, fields |-> BadFieldsNoColon] }
\* the arguments a feature run may be given
FeatureRunArgs ==
  [name : {<<"a">>, <<"b">>, <<"c">>}, fields : {NoFields, EnumFields}]
    \cup {[name |-> <<"c">>, fields |-> BadFieldsFourParts]}

\* the environments the runs of a behaviour may meet: every operation
\* succeeds, or one path cannot be created or written
NoFault == [broken |-> {}, others |-> FALSE]
BrokenSets ==
  { {CorePath("README.md")},
    {FeaturePath(FALSE, <<"c">>, "Features/<f>/domain/usecases")},
    {FeaturePath(FALSE, <<"b">>, "Features/<f>/container.ts")} }
Environments == {NoFault} \cup [broken : BrokenSets, others : BOOLEAN]

\* the bash script changes into the project root before it writes, so the
\* kind of path makes no difference to it
Init == /\ gen \in Generators
        /\ project \in [name : ProjectNames, path : PathSpecs]
        /\ gen = "bash" => project.path = "absolute"
        /\ environ \in Environments
        /\ gen = "bash" => ~environ.others
        /\ project.name # <<"P">> => (gen = "node" /\ project.path = "absolute" /\ environ = NoFault)
        /\ fs = EmptyFs
        /\ last = NoRun
        /\ roster = NoRoster
        /\ runs = 0
        /\ IdleParse
        /\ IdleRule

\* what a create run leaves in the variables
AfterCreate(result, line, given, features) ==
  /\ fs' = result.fs
  /\ last' = [cmd |-> "create", exit |-> result.exit, pre |-> fs, line |-> line,
              given |-> given, features |-> features,
              ops |-> result.ops, failedAt |-> result.failedAt]
  /\ roster' = IF result.exit = 0
               THEN [valid |-> TRUE, names |-> [i \in 1..Len(features) |-> features[i].name]]
               ELSE roster
  /\ runs' = runs + 1
  /\ UNCHANGED <<gen, project, environ, parseVars, ruleVars>>

\* what a feature run leaves in the variables
AfterFeature(result, name, fields) ==
  /\ fs' = result.fs
  /\ last' = [cmd |-> "feature", exit |-> result.exit, pre |-> fs, line |-> <<>>,
              given |-> <<name>>,
              features |-> <<[name |-> name, fields |-> fields]>>,
              ops |-> result.ops, failedAt |-> result.failedAt]
  /\ roster' = IF result.exit = 0 THEN [roster EXCEPT !.names = Append(@, name)] ELSE roster
  /\ runs' = runs + 1
  /\ UNCHANGED <<gen, project, environ, parseVars, ruleVars>>

\* the option values of a command line that names the given features:
\* --feature=--feature=<name> and --feature=--fields=<spec> for each of them
RECURSIVE optionValues(_)
optionValues(features) ==
  IF features = <<>> THEN <<>>
  ELSE <<S_featureEq \o Head(features).name>>
         \o (IF Head(features).fields = <<>> THEN <<>>
             ELSE <<S_fieldsEq \o Head(features).fields>>)
         \o optionValues(Tail(features))

\* the words of a command line that names the given features:
\* --feature <name> and --fields <spec> for each of them
RECURSIVE argumentWords(_)
argumentWords(features) ==
  IF features = <<>> THEN <<>>
  ELSE <<S_dashFeature, Head(features).name>>
         \o (IF Head(features).fields = <<>> THEN <<>>
             ELSE <<S_dashFields, Head(features).fields>>)
         \o argumentWords(Tail(features))

\* command lines that use --fields in other ways: without a value, before
\* any --feature, and twice for one feature; and one that names a feature
\* with an upper-case letter
SpecX == <<"x", ":", "s", "t", "r", "i", "n", "g">>
SpecY == <<"y", ":", "n", "u", "m", "b", "e", "r">>
ExtraValues ==
  { <<S_featureEq \o <<"a">>, S_fieldsEq>>,
    <<S_fieldsEq \o SpecX, S_featureEq \o <<"a">>>>,
    <<S_featureEq \o <<"a">>, S_fieldsEq \o SpecX, S_fieldsEq \o SpecY>>,
    <<S_featureEq \o <<"A">>>> }
ExtraWords ==
  { <<S_dashFeature, <<"a">>, S_dashFields>>,
    <<S_dashFields, SpecX, S_dashFeature, <<"a">>>>,
    <<S_dashFeature, <<"a">>, S_dashFields, SpecX, S_dashFields, SpecY>>,
    <<S_dashFeature, <<"A">>>> }

\* the values collected for --feature: the command line is written either as
\* --feature <name> ... (the values are the names) or with the values the
\* scan looks for
NodeCreateLines ==
  {optionValues(given) : given \in ListsUpTo(CreateArgs, MaxRoster)}
    \cup {[i \in 1..Len(given) |-> given[i].name] :
            given \in {g \in ListsUpTo(CreateArgs, MaxRoster) :
                         \A i \in 1..Len(g) : g[i].fields = <<>>}}
    \cup ExtraValues
BashCreateLines ==
  {argumentWords(given) : given \in ListsUpTo(CreateArgs, MaxRoster)} \cup ExtraWords

\* the names that follow a --feature word
RECURSIVE featureWords(_, _)
featureWords(words, i) ==
  IF i >= Len(words) THEN <<>>
  ELSE IF words[i] = S_dashFeature THEN <<words[i + 1]>> \o featureWords(words, i + 2)
       ELSE featureWords(words, i + 1)

NodeCreate ==
  /\ gen = "node" /\ runs < MaxRuns
  /\ \E values \in NodeCreateLines :
       LET done(run) == AfterCreate(run.result, values, values, run.features)
       IN done(createAction(fs, project, values, environ))

NodeFeature ==
  /\ gen = "node" /\ runs < MaxRuns
  /\ \E arg \in FeatureRunArgs :
       AfterFeature(addFeature(fs, arg.name, arg.fields, environ), arg.name, arg.fields)

BashCreate ==
  /\ gen = "bash" /\ runs < MaxRuns
  /\ \E words \in BashCreateLines :
       LET done(run) == AfterCreate(run.result, words, featureWords(words, 1), run.features)
       IN done(bashCreateCommand(fs, project, words, environ))

BashFeature ==
  /\ gen = "bash" /\ runs < MaxRuns
  /\ \E arg \in FeatureRunArgs :
       AfterFeature(bashFeature(fs, arg.name, arg.fields, environ), arg.name, arg.fields)

Next == NodeCreate \/ NodeFeature \/ BashCreate \/ BashFeature

Spec == Init /\ [][Next]_vars

(***************************************************************************)
(* Claims about runs                                                       *)
(***************************************************************************)
\* a field spec the user gave that has an entry which is not name:type[:rule]
Malformed(fields) == fields # <<>> /\ ~ValidSpecString(fields)
SomeMalformed(features) == \E i \in 1..Len(features) : Malformed(features[i].fields)

\* C1: a create run one of whose field specs has a malformed entry fails with
\* an error and leaves the file system as it was before the run.
C1_MalformedCreateTouchesNothing ==
  (last.cmd = "create" /\ SomeMalformed(last.features)) => (last.exit # 0 /\ fs = last.pre)

\* the feature names mounted by the bootstrap file of a file system
Mounted(f) ==
  IF fileExists(f, CorePath("Server/index.ts")) THEN f.files[CorePath("Server/index.ts")].body.mounts ELSE <<>>
\* the feature names of the example requests of the README of a file system
Listed(f) ==
  IF fileExists(f, CorePath("README.md"))
  THEN [i \in 1..Len(f.files[CorePath("README.md")].body.testing) |->
          f.files[CorePath("README.md")].body.testing[i].name]
  ELSE <<>>
Distinct(names) == \A i, j \in 1..Len(names) : i # j => names[i] # names[j]
IsLowerCase(name) == \A k \in 1..Len(name) : \E i \in 1..26 : LowerLetters[i] = name[k]

\* C2: after create with distinct lower-case feature names and successful
\* feature runs with new distinct names, the bootstrap file mounts exactly the
\* roster in order and the README lists exactly one example request per
\* feature of the roster (Node generator).
C2_RosterGrowth ==
  (/\ gen = "node"
   /\ roster.valid
   /\ last.cmd = "feature" /\ last.exit = 0
   /\ Distinct(roster.names)
   /\ \A i \in 1..Len(roster.names) : IsLowerCase(roster.names[i]))
  => (Mounted(fs) = roster.names /\ Listed(fs) = roster.names)

\* C3: the feature command ends with a non-zero status when the feature name
\* already exists in the project.
C3_CollisionRejected ==
  (/\ last.cmd = "feature"
   /\ \E i \in 1..Len(Mounted(last.pre)) : Mounted(last.pre)[i] = last.features[1].name)
  => last.exit # 0

\* C4: create on a project root that already exists fails and changes nothing.
C4_SecondCreateRejected ==
  (last.cmd = "create" /\ last.pre.root) => (last.exit # 0 /\ fs = last.pre)

C4_Witness ==
  /\ last.cmd = "create"
  /\ last.pre.root
  /\ fileExists(last.pre, CorePath("README.md"))
  /\ Len(last.features) > 0
  /\ last.exit = 1

\* C7: create ends with a non-zero status whenever a field spec has a
\* malformed entry, with every generator.
C7_MalformedCreateFails ==
  (last.cmd = "create" /\ SomeMalformed(last.features)) => last.exit # 0

(***************************************************************************)
(* Claims about the emitted feature files                                  *)
(***************************************************************************)
\* module resolution of a relative import specifier against the directory of
\* the importing file: "." stays, ".." goes up, the extension .ts is added
RECURSIVE walkSegments(_, _, _)
walkSegments(segs, dir, i) ==
  IF i > Len(segs) THEN dir
  ELSE IF segs[i] = <<".">> THEN walkSegments(segs, dir, i + 1)
  ELSE IF segs[i] = <<".", ".">>
       THEN walkSegments(segs, IF dir = <<>> THEN dir ELSE SubSeq(dir, 1, Len(dir) - 1), i + 1)
       ELSE walkSegments(segs, Append(dir, segs[i]), i + 1)
resolveImport(fileText, importText) ==
  LET fileSegs == split(fileText, "/")
      dir == SubSeq(fileSegs, 1, Len(fileSegs) - 1)
  IN join(walkSegments(split(importText, "/"), dir, 1), <<"/">>) \o <<".", "t", "s">>

\* C12: every file of a feature f that references the creation use case (the
\* use-case file, the controller, the DI container and the two tests) names it
\* "Create" + Capitalize(f) + "UseCase", and the module it imports it from is
\* the file at which the use-case file of f is written (and, where no
\* operation can fail, has been written).
C12_UseCaseIdentifier ==
  \A p \in DOMAIN fs.files :
    (p.rel \in UseCaseUsers \cup {UseCaseRel}) =>
      LET ref == fs.files[p].body.usecase
      IN /\ ref.ident = <<"C", "r", "e", "a", "t", "e">> \o capitalize(p.feature)
                          \o <<"U", "s", "e", "C", "a", "s", "e">>
         /\ p.rel \in UseCaseUsers =>
              /\ resolveImport(writtenPath(p.rel, p.feature), ref.from) = writtenPath(UseCaseRel, p.feature)
              /\ environ.broken = {} => FeaturePath(p.nested, p.feature, UseCaseRel) \in DOMAIN fs.files

C12_Witness ==
  /\ last.exit = 0
  /\ FeaturePath(FALSE, <<"b">>, "__tests__/Features/<f>/<f>.controller.test.ts") \in DOMAIN fs.files
  /\ fs.files[FeaturePath(FALSE, <<"b">>, "Features/<f>/container.ts")].body.usecase.ident
       = <<"C", "r", "e", "a", "t", "e", "B", "U", "s", "e", "C", "a", "s", "e">>

(***************************************************************************)
(* Claims about the abort paths of add-feature                             *)
(***************************************************************************)
\* C13: an add-feature run started where Server/index.ts is absent, or given
\* a malformed field spec, ends with a non-zero status and has created no
\* directory and written no file.
C13_FeatureAbortTouchesNothing ==
  (/\ last.cmd = "feature"
   /\ \/ ~fileExists(last.pre, CorePath("Server/index.ts"))
      \/ Malformed(last.features[1].fields))
  => (last.exit # 0 /\ fs = last.pre)

(***************************************************************************)
(* Claims about failing file-system operations                             *)
(***************************************************************************)
\* C14: when a file write or a directory creation of a create or add-feature
\* run fails, the run stops at that first failure (the failed step is the last
\* one it issued) and ends with a non-zero exit status, in the Node generator
\* and in the bash generator.
C14_WriteFailureStopsRun ==
  (last.cmd \in {"create", "feature"} /\ last.failedAt # 0)
    => (last.exit # 0 /\ last.failedAt = Len(last.ops))

(***************************************************************************)
(* Claims about the order of the file-system operations of a run           *)
(***************************************************************************)
\* the writes of the last run that were issued while the directory of their
\* target did not exist: the steps of the run replayed from the file system
\* the run started with
RECURSIVE orphanWrites(_, _, _)
orphanWrites(f, ops, i) ==
  IF i > Len(ops) THEN {}
  ELSE IF ops[i].op = "mkdir"
       THEN orphanWrites(applyStep(f, mkdirStep(ops[i].paths), environ.broken), ops, i + 1)
       ELSE {p \in ops[i].paths : ~parentExists(f, p)} \cup orphanWrites(f, ops, i + 1)

\* C15: in every run, whatever the order in which the operations issued
\* together take effect, no write is issued to a path whose parent directory
\* does not exist yet (for the generator that issues operations concurrently,
\* in every environment; for the sequential script, where no command fails).
C15_DirectoryBeforeFile ==
  (last.cmd # "none" /\ (gen = "node" \/ environ.broken = {}))
    => /\ orphanWrites(last.pre, last.ops, 1) = {}
       /\ \A i \in 1..Len(last.ops) : last.ops[i].op \in {"mkdir", "write"}

C15_Witness ==
  /\ gen = "node" /\ project.path = "relative"
  /\ last.cmd = "create" /\ last.exit = 0
  /\ Len(last.features) = 2
  /\ Len(last.ops) = 8
  /\ last.ops[4].op = "mkdir" /\ last.ops[5].op = "write"
  /\ \E p \in last.ops[5].paths : p.nested

\* C16: a run has two phases: all its directory creations come first and are
\* complete before its first file write; no directory creation is issued
\* after a file write.
C16_TwoPhases ==
  last.cmd # "none" =>
    \A i, j \in 1..Len(last.ops) :
      (i < j /\ last.ops[i].op = "write") => last.ops[j].op # "mkdir"

(***************************************************************************)
(* Claims about what add-feature writes and regenerates                    *)
(***************************************************************************)
BootstrapAndReadme == {CorePath("Server/index.ts"), CorePath("README.md")}
NewFeatureRun ==
  /\ last.cmd = "feature" /\ last.exit = 0
  /\ \A p \in DOMAIN last.pre.files : p.feature # last.features[1].name
  /\ \A i \in 1..Len(Mounted(last.pre)) : Mounted(last.pre)[i] # last.features[1].name

\* C17: a successful add-feature run for a new feature name writes only files
\* of the new feature (its subtree and its test directory), the bootstrap file
\* and the README; every other file of the project is as it was before.
C17_AddFeatureFrame ==
  NewFeatureRun =>
    /\ \A i \in 1..Len(last.ops) :
         last.ops[i].op = "write" =>
           \A p \in last.ops[i].paths : p.feature = last.features[1].name \/ p \in BootstrapAndReadme
    /\ \A p \in DOMAIN last.pre.files \ BootstrapAndReadme :
         p \in DOMAIN fs.files /\ fs.files[p] = last.pre.files[p]
    /\ \A p \in DOMAIN fs.files \ DOMAIN last.pre.files :
         p.feature = last.features[1].name \/ p \in BootstrapAndReadme

C17_Witness ==
  /\ NewFeatureRun
  /\ gen = "node"
  /\ last.features[1].name = <<"b">>
  /\ FeaturePath(TRUE, <<"a">>, "Features/<f>/container.ts") \in DOMAIN last.pre.files
  /\ FeaturePath(FALSE, <<"b">>, "Features/<f>/container.ts") \in DOMAIN fs.files \ DOMAIN last.pre.files
  /\ fs.files[CorePath("Server/index.ts")] # last.pre.files[CorePath("Server/index.ts")]

\* the sample JSON of a field spec, and of the default field set
SampleOfSpec(fields) == getSampleJson(parseFields(orDefault(fields)).fields)
DefaultSample == SampleOfSpec(<<>>)

\* C18: in the README that add-feature regenerates, every feature that
\* existed before is rendered with the sample JSON of the default field set,
\* and only the feature added by this run is rendered with the sample JSON of
\* the fields supplied in this run.
C18_ReadmeSamples ==
  (gen = "node" /\ last.cmd = "feature" /\ last.exit = 0) =>
    LET testing == fs.files[CorePath("README.md")].body.testing
        n == Len(testing)
    IN /\ n >= 1
       /\ testing[n].name = last.features[1].name
       /\ testing[n].sample = SampleOfSpec(last.features[1].fields)
       /\ \A i \in 1..(n - 1) : testing[i].sample = DefaultSample

\* C19: add-feature recovers the project name from the first top-level
\* heading of the README: after create with project name P and any sequence
\* of successful add-feature runs the heading of the README is exactly P
\* (Node generator).
C19_ProjectNameKept ==
  (gen = "node" /\ last.cmd \in {"create", "feature"} /\ last.exit = 0)
    => fs.files[CorePath("README.md")].body.heading = project.name

(***************************************************************************)
(* Claims about the roster of create                                       *)
(***************************************************************************)
\* C20: after create the feature roster of the project (the features the
\* bootstrap file mounts) is exactly the list of names the user gave with
\* --feature, one feature per --feature argument, in command-line order.
C20_CreateRoster ==
  (last.cmd = "create" /\ last.exit = 0) =>
    /\ Mounted(fs) = last.given
    /\ [i \in 1..Len(last.features) |-> last.features[i].name] = last.given

(***************************************************************************)
(* Claims about the default fields                                         *)
(***************************************************************************)
DefaultPair ==
  << [name |-> <<"n", "a", "m", "e">>, type |-> S_string, rule |-> S_minlengthEq \o <<"3">>],
     [name |-> S_email, type |-> S_string, rule |-> S_email] >>

\* the files of feature name that the last run wrote from its field list
fieldFilesOf(name) ==
  {p \in DOMAIN fs.files :
     /\ p.feature = name /\ fs.files[p].tmpl \in UsesFields
     /\ \E k \in 1..Len(last.ops) : last.ops[k].op = "write" /\ p \in last.ops[k].paths}

FieldsWithoutValue(words) ==
  \E i \in 1..Len(words) : words[i] = S_dashFields /\ noWord(words, i + 1)

\* C22: a create run of the script whose command line has a --fields flag
\* without a value ends with a non-zero status while the arguments are
\* scanned: no operation is issued and the file system is as it was.
C22_MissingFieldsValue ==
  (gen = "bash" /\ last.cmd = "create" /\ FieldsWithoutValue(last.line))
    => (last.exit # 0 /\ last.ops = <<>> /\ fs = last.pre)

C22_Witness ==
  /\ gen = "bash" /\ last.cmd = "create" /\ FieldsWithoutValue(last.line)
  /\ ~isDirectory(last.pre)
  /\ last.exit = 1 /\ ~fs.root

(***************************************************************************)
(* Claims about the uniqueness of the roster                               *)
(***************************************************************************)
\* C23: in every state reached by create and feature runs no feature name
\* occurs twice in the roster: the bootstrap file mounts no feature twice and
\* the README lists no feature twice.
C23_RosterUnique == Distinct(Mounted(fs)) /\ Distinct(Listed(fs))

(***************************************************************************)
(* Claims about the files of a feature                                     *)
(***************************************************************************)
\* C24: after a run that generated features, the delivery layer of each of
\* them holds the routes file Features/<f>/delivery/routes/<f>.routes.ts.
C24_RoutesFile ==
  (last.cmd \in {"create", "feature"} /\ last.exit = 0 /\ environ = NoFault) =>
    \A i \in 1..Len(last.features) :
      \E nested \in BOOLEAN :
        fileExists(fs, FeaturePath(nested, last.features[i].name,
                                   "Features/<f>/delivery/routes/<f>.routes.ts"))

(***************************************************************************)
(* Claims about the recovery of the roster                                 *)
(***************************************************************************)
\* the names supplied before the last successful feature run
NamesBefore == SubSeq(roster.names, 1, Len(roster.names) - 1)
RecoveredFromServer ==
  LET r == recoverServerRoster(last.pre.files[CorePath("Server/index.ts")].body)
  IN [i \in 1..Len(r) |-> r[i].name]
RecoveredFromReadme == matchCreateA(readmeText(last.pre.files[CorePath("README.md")].body))

\* C25: the roster a feature run recovers from Server/index.ts and the one it
\* recovers from README.md are both the names supplied so far, in order, so
\* the regenerated bootstrap file and README list the same names (Node
\* generator, no failing operation).
C25_RosterRecovered ==
  (gen = "node" /\ environ = NoFault /\ roster.valid /\ last.cmd = "feature" /\ last.exit = 0)
    => /\ RecoveredFromServer = NamesBefore
       /\ RecoveredFromReadme = NamesBefore
       /\ Mounted(fs) = Listed(fs)

(***************************************************************************)
(* Claims about the values of --fields                                     *)
(***************************************************************************)
\* C26: in the Node create action the field spec stored for a feature is the
\* complete text after --fields= : when the last collected value is a
\* --fields= value that follows a feature, the last feature holds all of its
\* text, rules with an equals sign included.
C26_FieldsTextKept ==
  (/\ gen = "node" /\ last.cmd = "create"
   /\ Len(last.line) >= 2
   /\ startsWith(last.line[Len(last.line)], S_fieldsEq)
   /\ \E i \in 1..(Len(last.line) - 1) : startsWith(last.line[i], S_featureEq))
  => /\ last.features # <<>>
     /\ last.features[Len(last.features)].fields = StripPrefix(last.line[Len(last.line)], S_fieldsEq)

\* the command line of the last create run as flags with their texts: for
\* the Node command each collected value, for the script each flag word with
\* the word that follows it
Tokens ==
  IF gen = "node"
  THEN [i \in 1..Len(last.line) |->
          IF startsWith(last.line[i], S_featureEq)
          THEN [flag |-> "feature", text |-> StripPrefix(last.line[i], S_featureEq)]
          ELSE IF startsWith(last.line[i], S_fieldsEq)
               THEN [flag |-> "fields", text |-> StripPrefix(last.line[i], S_fieldsEq)]
               ELSE [flag |-> "other", text |-> last.line[i]]]
  ELSE [i \in 1..((Len(last.line) + 1) \div 2) |->
          [flag |-> IF last.line[2 * i - 1] = S_dashFeature THEN "feature"
                    ELSE IF last.line[2 * i - 1] = S_dashFields THEN "fields" ELSE "other",
           text |-> IF 2 * i <= Len(last.line) THEN last.line[2 * i] ELSE <<>>]]
FeatureTokens == {i \in 1..Len(Tokens) : Tokens[i].flag = "feature"}
\* the position of the k-th --feature
FeatureToken(k) ==
  CHOOSE i \in FeatureTokens : Cardinality({j \in FeatureTokens : j < i}) = k - 1
\* the --fields given for the k-th feature: after its --feature and before the next
FieldsTokens(k) ==
  {i \in 1..Len(Tokens) :
     /\ Tokens[i].flag = "fields" /\ i > FeatureToken(k)
     /\ \A j \in FeatureTokens : j > FeatureToken(k) => i < j}
\* the text of the last of them, empty when there is none
FieldsGiven(k) ==
  IF FieldsTokens(k) = {} THEN <<>>
  ELSE Tokens[CHOOSE i \in FieldsTokens(k) : \A j \in FieldsTokens(k) : j <= i].text

\* C27: the create scan invents no feature, and the spec of the k-th
\* feature comes from the last --fields given after the k-th --feature and
\* before the next one (it is empty when there is none); a --fields before
\* every --feature reaches no feature.  The stored spec is compared as the
\* beginning of the given text.
C27_FieldsAttachment ==
  last.cmd = "create" =>
    /\ Len(last.features) <= Cardinality(FeatureTokens)
    /\ last.exit = 0 => Len(last.features) = Cardinality(FeatureTokens)
    /\ \A k \in 1..Len(last.features) :
         /\ startsWith(FieldsGiven(k), last.features[k].fields)
         /\ FieldsGiven(k) # <<>> => last.features[k].fields # <<>>

C27_Witness ==
  /\ last.cmd = "create" /\ last.exit = 0
  /\ Len(last.features) = 1
  /\ Cardinality(FieldsTokens(1)) = 2
  /\ last.features[1].fields = SpecY

(***************************************************************************)
(* Claims about the writes issued together                                 *)
(***************************************************************************)
\* the path a write goes to, as text: a core file is written under its
\* literal name, a feature file under the joined path
pathText(p) == IF p.feature = <<>> THEN <<p.rel>> ELSE writtenPath(p.rel, p.feature)
WriteBatches == {k \in 1..Len(last.ops) : last.ops[k].op = "write"}
FeatureBatches == {k \in WriteBatches : \E p \in last.ops[k].paths : p.feature # <<>>}

\* C28: no two writes issued together go to the same path, a batch holds
\* core files only or the files of one feature, and the features are
\* generated one batch after another (one batch per feature of the roster,
\* also when a name occurs twice).
C28_NoWriteCollision ==
  last.cmd \in {"create", "feature"} =>
    /\ \A k \in WriteBatches :
         /\ \A p, q \in last.ops[k].paths : p # q => pathText(p) # pathText(q)
         /\ Cardinality({p.feature : p \in last.ops[k].paths}) = 1
    /\ last.exit = 0 => Cardinality(FeatureBatches) = Len(last.features)

C28_Witness ==
  /\ gen = "node" /\ last.cmd = "create" /\ last.exit = 0
  /\ Len(last.features) = 2 /\ last.features[1].name = last.features[2].name
  /\ Cardinality(FeatureBatches) = 2

(***************************************************************************)
(* Claims about the two files a feature run regenerates                    *)
(***************************************************************************)
Occurs(name, names) == \E i \in 1..Len(names) : names[i] = name
\* the bootstrap file and the README of f agree on the feature name
Agree(f, name) == Occurs(name, Mounted(f)) <=> Occurs(name, Listed(f))

\* C29: after a feature run of the Node generator, successful or not, the
\* bootstrap file and the README agree on the new feature (both list it or
\* neither does), given that they agreed on it before the run.
C29_BootstrapReadmeAgree ==
  (gen = "node" /\ last.cmd = "feature" /\ Agree(last.pre, last.features[1].name))
    => Agree(fs, last.features[1].name)

(***************************************************************************)
(* Claims about the sample JSON                                            *)
(***************************************************************************)
\* the pairs "name": value of the field list, with the sample values computed
SamplePairs ==
  [i \in 1..Len(fieldList) |->
     Quote(fieldList[i].name) \o <<":", " ">> \o sampleOut.values[i]]

====
